---- MODULE Spec2Model ----
(***************************************************************************)
(* A model of the lazorkit-starter front end: the application shell, the   *)
(* passkey login card and the dashboard components, as state machines      *)
(* driven by user clicks, timers and the settling of SDK / RPC promises.   *)
(*                                                                         *)
(* React state is modelled as committed at the end of every handler step;  *)
(* a state setter called by a run whose component instance was unmounted   *)
(* is a no-op ("dead" runs and timers).  The wallet SDK (useWallet) and    *)
(* the RPC node are the environment: their promises settle in any order    *)
(* and with any of a small set of values.                                  *)
(***************************************************************************)
EXTENDS Integers, Sequences, FiniteSets, TLC

(***************************************************************************)
(* Bounds of the model.                                                    *)
(***************************************************************************)
MaxConnects == 2        \* connect() promises pending at once
MaxTimers == 2          \* Try Again timers pending at once

(***************************************************************************)
(* Values.                                                                 *)
(***************************************************************************)
NoWallet == "null"
Wallets == {"W1", "W2"}

\* messages of the errors a promise of the SDK may reject with ("" stands
\* for an error whose message is empty or missing)
ErrorMessages == {"", "User cancelled", "Timeout", "Not Allowed"}

\* the messages getErrorType is examined on: up to MaxWords of these words
MaxWords == 2

ErrorWords ==
    {"cancel", "Abort", "USER", "timeout", "Timed out", "not supported",
     "Not Allowed", "notallowed", "failed"}

Join(p, w) == IF p = "" THEN w ELSE p \o " " \o w

RECURSIVE Phrases(_)
Phrases(n) ==
    IF n = 0 THEN {""}
    ELSE Phrases(n - 1) \cup {Join(p, w) : p \in Phrases(n - 1), w \in ErrorWords}

ThrownMessages == Phrases(MaxWords)

(***************************************************************************)
(* String helpers: String.prototype.toLowerCase and includes.              *)
(***************************************************************************)
LowerOf(c) ==
    CASE c = "A" -> "a" [] c = "B" -> "b" [] c = "C" -> "c" [] c = "D" -> "d"
      [] c = "E" -> "e" [] c = "F" -> "f" [] c = "G" -> "g" [] c = "H" -> "h"
      [] c = "I" -> "i" [] c = "J" -> "j" [] c = "K" -> "k" [] c = "L" -> "l"
      [] c = "M" -> "m" [] c = "N" -> "n" [] c = "O" -> "o" [] c = "P" -> "p"
      [] c = "Q" -> "q" [] c = "R" -> "r" [] c = "S" -> "s" [] c = "T" -> "t"
      [] c = "U" -> "u" [] c = "V" -> "v" [] c = "W" -> "w" [] c = "X" -> "x"
      [] c = "Y" -> "y" [] c = "Z" -> "z" [] OTHER -> c

RECURSIVE toLowerCase(_)
toLowerCase(s) ==
    IF Len(s) = 0 THEN ""
    ELSE LowerOf(SubSeq(s, 1, 1)) \o toLowerCase(SubSeq(s, 2, Len(s)))

includes(s, sub) ==
    \E i \in 1..(Len(s) - Len(sub) + 1) : SubSeq(s, i, i + Len(sub) - 1) = sub

(***************************************************************************)
(* PasskeyLogin: getErrorType.                                             *)
(***************************************************************************)
\* (a faulty variant: the timeout rule is tried before the cancelled rule)
getErrorTypeTimeoutFirst(message) ==
    LET msg == toLowerCase(message) IN
    IF includes(msg, "timeout") THEN "timeout"
    ELSE IF includes(msg, "cancel") \/ includes(msg, "abort") \/ includes(msg, "user")
    THEN "cancelled"
    ELSE IF includes(msg, "not supported") \/ includes(msg, "not allowed")
    THEN "unsupported"
    ELSE "unknown"

\* const msg = error?.message?.toLowerCase() || ''; message is the error's
\* message, "" when it has none
getErrorType(message) ==
    LET msg == toLowerCase(message) IN
    IF includes(msg, "cancel") \/ includes(msg, "abort") \/ includes(msg, "user")
    THEN "cancelled"
    ELSE IF includes(msg, "timeout") THEN "timeout"
    ELSE IF includes(msg, "not supported") \/ includes(msg, "not allowed")
    THEN "unsupported"
    ELSE "unknown"

\* the texts of the error overlay: switch (type) { ... default: ... }
getErrorContent(type) ==
    CASE type = "cancelled" ->
           [title |-> "Authentication Cancelled",
            description |-> "You closed the passkey dialog before completing authentication.",
            tips |-> <<"Complete the biometric verification when prompted",
                       "Click \"Sign in\" on the passkey portal",
                       "Try creating a new passkey if you don't have one">>]
      [] type = "timeout" ->
           [title |-> "Authentication Timed Out",
            description |-> "The authentication request took too long.",
            tips |-> <<"Check your internet connection",
                       "Make sure your device biometrics are working",
                       "Try again and respond to the prompt quickly">>]
      [] type = "unsupported" ->
           [title |-> "Passkeys Not Supported",
            description |-> "Your browser or device doesn't support passkeys.",
            tips |-> <<"Use Chrome, Safari, or Edge browser",
                       "Ensure you're on a secure (HTTPS) connection",
                       "Update your browser to the latest version">>]
      [] OTHER ->
           [title |-> "Authentication Failed",
            description |-> "Something went wrong during authentication.",
            tips |-> <<"Refresh the page and try again",
                       "Check if you have an existing passkey",
                       "Try creating a new account if needed">>]

(***************************************************************************)
(* State.                                                                  *)
(*   mounted                          AppShell's useState(false)           *)
(*   isConnected, isConnecting, wallet   what useWallet() reports          *)
(*   restoring    the provider's auto-reconnect session check is pending   *)
(*   login, overview, history, transfer, sign                              *)
(*                one record per component, a field per useState, plus     *)
(*                the promises and timers the component has pending        *)
(*   ev, out      the last step taken and the external calls it made       *)
(*                (toasts, console, SDK and RPC calls), in order           *)
(*   sinceFail    history: the SDK methods that have failed with no click  *)
(*                on a button that calls them since                        *)
(*   focus        the dashboard components whose state is followed         *)
(*   env          process.env: each variable unset (<<>>) or set to a       *)
(*                string                                                   *)
(*   thrown       the message of the error connect() rejects with in       *)
(*                SpecErrors ("" for none)                                 *)
(* A nullable value is <<>> (null) or <<v>>.                               *)
(***************************************************************************)
VARIABLES mounted, isConnected, isConnecting, wallet, restoring,
          login, overview, history, transfer, sign, ev, out, sinceFail,
          focus, env, thrown

sdkVars == <<isConnected, isConnecting, wallet, restoring>>
dashVars == <<overview, history, transfer, sign>>
vars == <<mounted, isConnected, isConnecting, wallet, restoring,
          login, overview, history, transfer, sign, ev, out, sinceFail,
          focus, env, thrown>>

Null == <<>>
Some(v) == <<v>>

\* useWallet().smartWalletPubkey: the PublicKey of wallet.smartWallet
smartWalletPubkey == wallet

(***************************************************************************)
(* External calls, as they appear in out.                                  *)
(***************************************************************************)
ToastSuccess(title) == [call |-> "toast.success", title |-> title]
ToastError(title) == [call |-> "toast.error", title |-> title]
ToastErrorDesc(title, description) ==
    [call |-> "toast.error", title |-> title, description |-> description]
ConsoleError(label) == [call |-> "console.error", label |-> label]
SdkConnect == [call |-> "connect"]
SdkDisconnect == [call |-> "disconnect"]

CallsIn(o, name) == {i \in 1..Len(o) : o[i].call = name}
Calls(name) == CallsIn(out, name)

(***************************************************************************)
(* AppShell: what it renders, as the chain of early returns.               *)
(***************************************************************************)
Dashboard ==
    {"Disconnect", "WalletOverview", "GaslessTransfer", "SignMessage",
     "TransactionHistory"}

\* (a faulty variant: the connection is looked at before the mount flag)
AppShellRenderConnectedFirst(m, c) ==
    IF ~c THEN {"PasskeyLogin"}
    ELSE IF ~m THEN {"Spinner"}
    ELSE Dashboard

AppShellRender(m, c) ==
    IF ~m THEN {"Spinner"}
    ELSE IF ~c THEN {"PasskeyLogin"}
    ELSE Dashboard

AppShell == AppShellRender(mounted, isConnected)

LoginShown(m, c) == "PasskeyLogin" \in AppShellRender(m, c)
DashboardShown(m, c) == "WalletOverview" \in AppShellRender(m, c)

(***************************************************************************)
(* PasskeyLogin.                                                           *)
(*   authError      useState<AuthError | null>(null)                       *)
(*   timers         pending setTimeout(handleLogin, 100) of this instance  *)
(*   connects       handleLogin runs of this instance awaiting connect()   *)
(*   deadTimers, deadConnects   the same, of instances since unmounted     *)
(*   last           (history) what became of the connect() of the most     *)
(*                  recent handleLogin of this instance                    *)
(***************************************************************************)
LoginInit ==
    [authError |-> Null, timers |-> 0, connects |-> 0,
     deadTimers |-> 0, deadConnects |-> 0, last |-> "none"]

LoginUnmount(l) ==
    [authError |-> Null, timers |-> 0, connects |-> 0,
     deadTimers |-> l.deadTimers + l.timers,
     deadConnects |-> l.deadConnects + l.connects, last |-> "none"]

LoginLifecycle(l, m2, c2) ==
    IF LoginShown(mounted, isConnected) /\ ~LoginShown(m2, c2)
    THEN LoginUnmount(l)
    ELSE l

\* handleLogin up to its await: setAuthError(null); connect()
handleLogin(l, live) ==
    IF live
    THEN [l EXCEPT !.authError = Null, !.connects = @ + 1, !.last = "pending"]
    ELSE [l EXCEPT !.deadConnects = @ + 1]

handleLoginOut == <<SdkConnect>>

\* the AuthError handleLogin's catch block builds from the rejection
LoginErrorMessage(e) == IF e = "" THEN "Authentication failed" ELSE e

MakeAuthError(e) == [message |-> LoginErrorMessage(e), type |-> getErrorType(e)]

handleLoginCatch(l, live, e) ==
    IF live
    THEN [l EXCEPT !.connects = @ - 1, !.authError = Some(MakeAuthError(e))]
    ELSE [l EXCEPT !.deadConnects = @ - 1]

handleLoginCatchOut == <<ConsoleError("Authentication failed:")>>

handleLoginThen(l, live) ==
    IF live
    THEN [l EXCEPT !.connects = @ - 1]
    ELSE [l EXCEPT !.deadConnects = @ - 1]

handleLoginThenOut == <<ToastSuccess("Successfully authenticated with Passkey!")>>

dismissError(l) == [l EXCEPT !.authError = Null]

\* {authError && ( ... getErrorContent(authError.type) ... )}
ErrorOverlay(l) ==
    IF l.authError = Null THEN Null
    ELSE Some(getErrorContent(l.authError[1].type))

\* which pending connect() of the instance settles: the one of its most recent
\* handleLogin (newest), or one of an earlier handleLogin
MaySettle(l, live, newest) ==
    IF ~live THEN ~newest /\ l.deadConnects > 0
    ELSE IF newest THEN l.last = "pending"
    ELSE l.connects > (IF l.last = "pending" THEN 1 ELSE 0)

PendingConnects(l) == l.connects + l.deadConnects
PendingTimers(l) == l.timers + l.deadTimers

(***************************************************************************)
(* SignMessage.                                                            *)
(*   message, signature, loading   its useState values                     *)
(*   runs / deadRuns   handleSign runs awaiting signMessage(), of this     *)
(*                     instance / of instances since unmounted             *)
(***************************************************************************)
MaxSigns == 2           \* signMessage() promises pending at once

Messages == {"", "  ", "gm", " hi "}

\* what signMessage() may fulfil with: a string, or an object with a signature
SignResults ==
    {[typeof |-> "string", value |-> "sigA"],
     [typeof |-> "object", signature |-> "sigB"]}

RECURSIVE trimStart(_)
trimStart(s) ==
    IF Len(s) > 0 /\ SubSeq(s, 1, 1) = " " THEN trimStart(SubSeq(s, 2, Len(s)))
    ELSE s

RECURSIVE trimEnd(_)
trimEnd(s) ==
    IF Len(s) > 0 /\ SubSeq(s, Len(s), Len(s)) = " "
    THEN trimEnd(SubSeq(s, 1, Len(s) - 1))
    ELSE s

trim(s) == trimEnd(trimStart(s))

SignInit ==
    [message |-> "", signature |-> Null, loading |-> FALSE,
     runs |-> 0, deadRuns |-> 0]

SignUnmount(s) == [SignInit EXCEPT !.deadRuns = s.deadRuns + s.runs]

SignLifecycle(s, m2, c2) ==
    IF DashboardShown(mounted, isConnected) /\ ~DashboardShown(m2, c2)
    THEN SignUnmount(s)
    ELSE s

\* (a faulty variant: the message is not trimmed before the check)
SignBlankEmptyOnly(s) == s.message = ""

\* !message.trim()
SignBlank(s) == trim(s.message) = ""

\* the Sign button: disabled={loading || !message.trim()}
SignDisabled(s) == s.loading \/ SignBlank(s)

\* (a faulty variant: the signature shown stays while the next one is awaited)
handleSignKeepsSignature(s) ==
    IF SignBlank(s) THEN s
    ELSE [s EXCEPT !.loading = TRUE, !.runs = @ + 1]

\* handleSign up to its await
handleSign(s) ==
    IF SignBlank(s) THEN s
    ELSE [s EXCEPT !.loading = TRUE, !.signature = Null, !.runs = @ + 1]

SdkSignMessage(m) == [call |-> "signMessage", message |-> m]

handleSignOut(s) ==
    IF SignBlank(s) THEN <<ToastError("Please enter a message to sign")>>
    ELSE <<SdkSignMessage(s.message)>>

\* (a faulty variant: an object result is shown as it is converted to a string)
SignatureOfStringified(result) ==
    IF result.typeof = "string" THEN result.value ELSE "[object Object]"

\* const sig = typeof result === 'string' ? result : result.signature
SignatureOf(result) ==
    IF result.typeof = "string" THEN result.value ELSE result.signature

handleSignThen(s, live, result) ==
    IF live
    THEN [s EXCEPT !.signature = Some(SignatureOf(result)),
                   !.loading = FALSE, !.runs = @ - 1]
    ELSE [s EXCEPT !.deadRuns = @ - 1]

handleSignThenOut == <<ToastSuccess("Message signed successfully!")>>

\* (a faulty variant: setLoading(false) in the catch's last line, not in finally,
\* so that it is skipped; the run ends with loading as it was)
handleSignCatchNoFinally(s, live) ==
    IF live
    THEN [s EXCEPT !.runs = @ - 1]
    ELSE [s EXCEPT !.deadRuns = @ - 1]

\* catch, then finally { setLoading(false) }
handleSignCatch(s, live) ==
    IF live
    THEN [s EXCEPT !.loading = FALSE, !.runs = @ - 1]
    ELSE [s EXCEPT !.deadRuns = @ - 1]

SignErrorDescription(e) == IF e = "" THEN "User cancelled or passkey error." ELSE e

handleSignCatchOut(e) ==
    <<ConsoleError("Sign message failed:"),
      ToastErrorDesc("Signing failed", SignErrorDescription(e))>>

(***************************************************************************)
(* GaslessTransfer.                                                        *)
(*   recipient, amount, loading, gasless   its useState values             *)
(*   runs / deadRuns   handleTransfer runs awaiting                        *)
(*                     signAndSendTransaction()                            *)
(***************************************************************************)
MaxTransfers == 2       \* signAndSendTransaction() promises pending at once

LAMPORTS_PER_SOL == 1000000000

ValidAddress == "Gh9ZwEmdLJ8DscKNTkTqPbNwLNNBjuSzaG9Vp2KGtKJr"
Recipients == {"", "not-an-address", ValidAddress}
Amounts == {"", "1", "0.5"}
TxSignatures == {"5VERYLONGSIGNATURE"}

Base58Alphabet == "123456789ABCDEFGHJKLMNPQRSTUVWXYZabcdefghijkmnopqrstuvwxyz"

\* (a faulty variant: the address is not validated)
IsPublicKeyUnchecked(s) == TRUE

\* new PublicKey(s) throws unless s is the base58 encoding of 32 bytes; such
\* an encoding has 32 to 44 characters of the base58 alphabet
IsPublicKey(s) ==
    /\ Len(s) >= 32 /\ Len(s) <= 44
    /\ \A i \in 1..Len(s) : includes(Base58Alphabet, SubSeq(s, i, i))

Digit(c) ==
    CASE c = "0" -> 0 [] c = "1" -> 1 [] c = "2" -> 2 [] c = "3" -> 3
      [] c = "4" -> 4 [] c = "5" -> 5 [] c = "6" -> 6 [] c = "7" -> 7
      [] c = "8" -> 8 [] c = "9" -> 9

RECURSIVE Pow10(_)
Pow10(n) == IF n = 0 THEN 1 ELSE 10 * Pow10(n - 1)

\* the digits of a decimal numeral as a number, the point left out
RECURSIVE DigitsValue(_)
DigitsValue(s) ==
    IF Len(s) = 0 THEN 0
    ELSE LET c == SubSeq(s, Len(s), Len(s))
             rest == SubSeq(s, 1, Len(s) - 1)
         IN IF c = "." THEN DigitsValue(rest)
            ELSE 10 * DigitsValue(rest) + Digit(c)

\* the number of digits after the point
Decimals(s) ==
    IF \E i \in 1..Len(s) : SubSeq(s, i, i) = "."
    THEN Len(s) - (CHOOSE i \in 1..Len(s) : SubSeq(s, i, i) = ".")
    ELSE 0

\* parseFloat(amount) * LAMPORTS_PER_SOL, for a numeral of at most 9 decimals
Lamports(amount) == DigitsValue(amount) * Pow10(9 - Decimals(amount))

TransferInit ==
    [recipient |-> "", amount |-> "", loading |-> FALSE, gasless |-> TRUE,
     runs |-> 0, deadRuns |-> 0]

TransferUnmount(t) == [TransferInit EXCEPT !.deadRuns = t.deadRuns + t.runs]

TransferLifecycle(t, m2, c2) ==
    IF DashboardShown(mounted, isConnected) /\ ~DashboardShown(m2, c2)
    THEN TransferUnmount(t)
    ELSE t

\* (a faulty variant: the button does not look at loading)
SendDisabledNoLoading(t, pubkey) == pubkey = NoWallet

\* the Send button: disabled={loading || !smartWalletPubkey}
SendDisabled(t, pubkey) == t.loading \/ pubkey = NoWallet

TransferInstruction(from, to, lamports) ==
    [program |-> "SystemProgram.transfer", fromPubkey |-> from,
     toPubkey |-> to, lamports |-> lamports]

\* (a faulty variant: the fee token is asked for whatever the mode)
TxOptionsAlwaysUsdc(gasless) == Some([feeToken |-> "USDC"])

\* const txOptions = gasless ? { feeToken: 'USDC' } : undefined
TxOptions(gasless) == IF gasless THEN Some([feeToken |-> "USDC"]) ELSE Null

SdkSignAndSend(instructions, txOptions) ==
    [call |-> "signAndSendTransaction", instructions |-> instructions,
     transactionOptions |-> txOptions]

\* (a faulty variant: the check for empty fields is missing)
TransferPathNoEmptyCheck(t, pubkey) ==
    IF pubkey = NoWallet THEN "no-wallet"
    ELSE IF ~IsPublicKey(t.recipient) THEN "throws"
    ELSE "sends"

\* which way handleTransfer goes before its await
TransferPath(t, pubkey) ==
    IF pubkey = NoWallet THEN "no-wallet"
    ELSE IF t.recipient = "" \/ t.amount = "" THEN "empty"
    ELSE IF ~IsPublicKey(t.recipient) THEN "throws"
    ELSE "sends"

\* handleTransfer up to its await (or through catch and finally when
\* new PublicKey(recipient) throws)
handleTransfer(t, pubkey) ==
    IF TransferPath(t, pubkey) = "sends"
    THEN [t EXCEPT !.loading = TRUE, !.runs = @ + 1]
    ELSE IF TransferPath(t, pubkey) = "throws"
    THEN [t EXCEPT !.loading = FALSE]
    ELSE t

handleTransferOut(t, pubkey) ==
    CASE TransferPath(t, pubkey) = "no-wallet" -> <<>>
      [] TransferPath(t, pubkey) = "empty" ->
            <<ToastError("Please fill in all fields")>>
      [] TransferPath(t, pubkey) = "throws" ->
            <<ConsoleError("Transfer failed:"),
              ToastErrorDesc("Transfer failed", "Invalid public key input")>>
      [] TransferPath(t, pubkey) = "sends" ->
            <<SdkSignAndSend(
                <<TransferInstruction(pubkey, t.recipient, Lamports(t.amount))>>,
                TxOptions(t.gasless))>>

handleTransferThen(t, live) ==
    IF live
    THEN [t EXCEPT !.amount = "", !.loading = FALSE, !.runs = @ - 1]
    ELSE [t EXCEPT !.deadRuns = @ - 1]

handleTransferThenOut == <<ToastSuccess("Transaction sent successfully!")>>

handleTransferCatch(t, live) ==
    IF live
    THEN [t EXCEPT !.loading = FALSE, !.runs = @ - 1]
    ELSE [t EXCEPT !.deadRuns = @ - 1]

TransferErrorDescription(e) == IF e = "" THEN "Unknown error" ELSE e

handleTransferCatchOut(e) ==
    <<ConsoleError("Transfer failed:"),
      ToastErrorDesc("Transfer failed", TransferErrorDescription(e))>>

(***************************************************************************)
(* WalletOverview and TransactionHistory: the two polling components.      *)
(*   solBalance, usdcBalance, loading / transactions, loading              *)
(*                 their useState values                                   *)
(*   intervals     setInterval timers of the component that are active     *)
(*   cleanup       whether the last run of the effect returned a cleanup   *)
(*   fetches / deadFetches   fetch runs awaiting an RPC answer, oldest     *)
(*                 first, of this instance / of instances since unmounted  *)
(***************************************************************************)
MaxFetches == 2         \* fetch runs pending at once, per component

USDC_MINT == "Gh9ZwEmdLJ8DscKNTkTqPbNwLNNBjuSzaG9Vp2KGtKJr"

OverviewPeriod == 10000     \* setInterval(fetchBalances, 10000)
HistoryPeriod == 30000      \* setInterval(fetchTransactions, 30000)
HistoryLimit == 5           \* getSignaturesForAddress(pubkey, { limit: 5 })

\* answers of the RPC node
LamportBalances == {0, 1500000000}
\* getParsedTokenAccountsByOwner: the uiAmount of each token account found
TokenAccountLists == {<<>>, <<5>>, <<7, 9>>}
\* getSignaturesForAddress: blockTime may be a number, null or left out
Undefined == [tag |-> "undefined"]
JsNull == [tag |-> "null"]
Number(n) == [tag |-> "number", value |-> n]
SigInfo(sg, sl, bt, er) ==
    [signature |-> sg, slot |-> sl, blockTime |-> bt, err |-> er]
SignatureLists ==
    { <<>>,
      <<SigInfo("s1", 11, Number(1700000000), JsNull),
        SigInfo("s2", 12, Undefined, [tag |-> "object", value |-> "InstructionError"])>>,
      <<SigInfo("s5", 25, JsNull, JsNull), SigInfo("s4", 24, Number(1700000004), JsNull),
        SigInfo("s3", 23, Number(1700000003), JsNull), SigInfo("s2", 12, Undefined, JsNull),
        SigInfo("s1", 11, Number(1700000000), JsNull)>> }

(***************************************************************************)
(* lib/config.ts and LazorTxProvider.                                      *)
(***************************************************************************)
EnvNames == {"NEXT_PUBLIC_RPC_URL", "NEXT_PUBLIC_PORTAL_URL", "NEXT_PUBLIC_PAYMASTER_URL"}
EnvValues == {Null, Some(""), Some("https://custom.example")}
Envs == [EnvNames -> EnvValues]
NoEnv == [n \in EnvNames |-> Null]

\* (a faulty variant: only an unset variable gives the default, as with ??)
OrDefaultNullish(v, default) == IF v = Null THEN default ELSE v[1]

\* process.env.X || default: undefined and '' are falsy
OrDefault(v, default) == IF v = Null \/ v = Some("") THEN default ELSE v[1]

LAZORKIT_CONFIG ==
    [rpcUrl |-> OrDefault(env["NEXT_PUBLIC_RPC_URL"], "https://api.devnet.solana.com"),
     portalUrl |-> OrDefault(env["NEXT_PUBLIC_PORTAL_URL"], "https://portal.lazor.sh"),
     paymasterConfig |->
        [paymasterUrl |-> OrDefault(env["NEXT_PUBLIC_PAYMASTER_URL"],
                                    "https://kora.devnet.lazorkit.com")]]

\* the props LazorTxProvider gives to LazorkitProvider
LazorTxProvider ==
    [rpcUrl |-> LAZORKIT_CONFIG.rpcUrl,
     portalUrl |-> LAZORKIT_CONFIG.portalUrl,
     paymasterConfig |-> LAZORKIT_CONFIG.paymasterConfig]

\* new Connection(LAZORKIT_CONFIG.rpcUrl), and the requests made on it
RpcGetBalance(w) ==
    [call |-> "getBalance", pubkey |-> w, rpcUrl |-> LAZORKIT_CONFIG.rpcUrl]
RpcGetTokenAccounts(w) ==
    [call |-> "getParsedTokenAccountsByOwner", pubkey |-> w, mint |-> USDC_MINT,
     rpcUrl |-> LAZORKIT_CONFIG.rpcUrl]
RpcGetSignatures(w) ==
    [call |-> "getSignaturesForAddress", pubkey |-> w, limit |-> HistoryLimit,
     rpcUrl |-> LAZORKIT_CONFIG.rpcUrl]

\* an interval timer: the function it runs (with the wallet of its closure)
\* and its period
Interval(fn, w, ms) == [handler |-> fn, wallet |-> w, ms |-> ms]
SetInterval(iv) == [call |-> "setInterval", interval |-> iv]
ClearInterval(iv) == [call |-> "clearInterval", interval |-> iv]

RemoveAt(seq, i) == SubSeq(seq, 1, i - 1) \o SubSeq(seq, i + 1, Len(seq))

\* a fetch run awaiting an answer: the request it waits for, the wallet of
\* its closure, and (history) whether the answer of a run started after it
\* has been applied to the component's state already
FetchRun(stage, w) == [stage |-> stage, wallet |-> w, overtaken |-> FALSE]

MarkOvertaken(runs, i) ==
    [k \in 1..Len(runs) |->
        IF k < i THEN [runs[k] EXCEPT !.overtaken = TRUE] ELSE runs[k]]

PendingFetches(p) == Len(p.fetches) + Len(p.deadFetches)

\* (a faulty variant: the effect returns no cleanup that clears the interval)
PollCleanupNone(p) == [p EXCEPT !.cleanup = Null]

\* the effect's cleanup: () => clearInterval(interval)
PollCleanup(p) ==
    IF p.cleanup = Null THEN p
    ELSE [p EXCEPT !.intervals = @ \ {p.cleanup[1]}, !.cleanup = Null]

PollCleanupOut(p) ==
    IF p.cleanup = Null \/ PollCleanup(p).intervals = p.intervals THEN <<>>
    ELSE <<ClearInterval(p.cleanup[1])>>

\* (a faulty variant: the effect does not look at the wallet address)
PollConditionConnectedOnly(c, w) == c

\* if (isConnected && wallet?.smartWallet)
PollCondition(c, w) == c /\ w # NoWallet

OverviewInit ==
    [solBalance |-> Null, usdcBalance |-> Null, loading |-> FALSE,
     intervals |-> {}, cleanup |-> Null, fetches |-> <<>>, deadFetches |-> <<>>]

\* sol / LAMPORTS_PER_SOL, kept exact: whole SOL and the lamports left over
SolOf(lamports) ==
    [sol |-> lamports \div LAMPORTS_PER_SOL, lamports |-> lamports % LAMPORTS_PER_SOL]

\* fetchBalances up to its first await, for the wallet w of its closure
fetchBalances(p, w, live) ==
    IF w = NoWallet THEN p
    ELSE IF live
    THEN [p EXCEPT !.loading = TRUE,
                   !.fetches = Append(@, FetchRun("sol", w))]
    ELSE [p EXCEPT !.deadFetches = Append(@, FetchRun("sol", w))]

fetchBalancesOut(w) == IF w = NoWallet THEN <<>> ELSE <<RpcGetBalance(w)>>

\* WalletOverview's useEffect body
OverviewEffect(p, c, w) ==
    IF PollCondition(c, w)
    THEN [fetchBalances(p, w, TRUE) EXCEPT
            !.intervals = @ \cup {Interval("fetchBalances", w, OverviewPeriod)},
            !.cleanup = Some(Interval("fetchBalances", w, OverviewPeriod))]
    ELSE [p EXCEPT !.cleanup = Null]

OverviewEffectOut(c, w) ==
    IF PollCondition(c, w)
    THEN fetchBalancesOut(w)
         \o <<SetInterval(Interval("fetchBalances", w, OverviewPeriod))>>
    ELSE <<>>

OverviewUnmount(p) ==
    [OverviewInit EXCEPT !.intervals = PollCleanup(p).intervals,
                         !.deadFetches = p.deadFetches \o p.fetches]

\* await connection.getBalance(pubkey) returned: setSolBalance, then the
\* token accounts are asked for
fetchBalancesSol(p, live, i, lamports) ==
    IF live
    THEN [p EXCEPT !.solBalance = Some(SolOf(lamports)),
                   !.fetches = [MarkOvertaken(@, i) EXCEPT ![i].stage = "usdc"]]
    ELSE [p EXCEPT !.deadFetches[i].stage = "usdc"]

\* await connection.getBalance(pubkey) threw: outer catch, finally
fetchBalancesSolCatch(p, live, i) ==
    IF live
    THEN [p EXCEPT !.loading = FALSE, !.fetches = RemoveAt(@, i)]
    ELSE [p EXCEPT !.deadFetches = RemoveAt(@, i)]

\* (a faulty variant: the failure is only logged)
fetchBalancesSolCatchOutSilent == <<ConsoleError("Failed to fetch balances:")>>

fetchBalancesSolCatchOut ==
    <<ConsoleError("Failed to fetch balances:"), ToastError("Failed to fetch balances")>>

\* (a faulty variant: the last token account instead of the first)
UsdcOfLast(accounts) == IF Len(accounts) > 0 THEN accounts[Len(accounts)] ELSE 0

\* tokenAccounts.value.length > 0 ? value[0]...uiAmount : 0
UsdcOf(accounts) == IF Len(accounts) > 0 THEN accounts[1] ELSE 0

\* await connection.getParsedTokenAccountsByOwner(...) returned; finally
fetchBalancesUsdc(p, live, i, accounts) ==
    IF live
    THEN [p EXCEPT !.usdcBalance = Some(UsdcOf(accounts)), !.loading = FALSE,
                   !.fetches = RemoveAt(MarkOvertaken(@, i), i)]
    ELSE [p EXCEPT !.deadFetches = RemoveAt(@, i)]

\* it threw: inner catch { setUsdcBalance(0) }; finally
fetchBalancesUsdcCatch(p, live, i) ==
    IF live
    THEN [p EXCEPT !.usdcBalance = Some(0), !.loading = FALSE,
                   !.fetches = RemoveAt(@, i)]
    ELSE [p EXCEPT !.deadFetches = RemoveAt(@, i)]

HistoryInit ==
    [transactions |-> <<>>, loading |-> FALSE,
     intervals |-> {}, cleanup |-> Null, fetches |-> <<>>, deadFetches |-> <<>>]

\* fetchTransactions up to its await, for the wallet w of its closure
fetchTransactions(p, w, live) ==
    IF w = NoWallet THEN p
    ELSE IF live
    THEN [p EXCEPT !.loading = TRUE, !.fetches = Append(@, FetchRun("signatures", w))]
    ELSE [p EXCEPT !.deadFetches = Append(@, FetchRun("signatures", w))]

fetchTransactionsOut(w) == IF w = NoWallet THEN <<>> ELSE <<RpcGetSignatures(w)>>

\* TransactionHistory's useEffect body
HistoryEffect(p, c, w) ==
    IF PollCondition(c, w)
    THEN [fetchTransactions(p, w, TRUE) EXCEPT
            !.intervals = @ \cup {Interval("fetchTransactions", w, HistoryPeriod)},
            !.cleanup = Some(Interval("fetchTransactions", w, HistoryPeriod))]
    ELSE [p EXCEPT !.cleanup = Null]

HistoryEffectOut(c, w) ==
    IF PollCondition(c, w)
    THEN fetchTransactionsOut(w)
         \o <<SetInterval(Interval("fetchTransactions", w, HistoryPeriod))>>
    ELSE <<>>

HistoryUnmount(p) ==
    [HistoryInit EXCEPT !.intervals = PollCleanup(p).intervals,
                        !.deadFetches = p.deadFetches \o p.fetches]

\* (a faulty variant: a blockTime left out stays undefined)
OrNullKeep(v) == v

\* sig.blockTime ?? null
OrNull(v) == IF v = Undefined THEN JsNull ELSE v

\* signatures.map(sig => ({signature, slot, blockTime: sig.blockTime ?? null, err}))
MapSignatures(signatures) ==
    [k \in 1..Len(signatures) |->
        [signature |-> signatures[k].signature, slot |-> signatures[k].slot,
         blockTime |-> OrNull(signatures[k].blockTime), err |-> signatures[k].err]]

\* await connection.getSignaturesForAddress(...) returned; finally
fetchTransactionsThen(p, live, i, signatures) ==
    IF live
    THEN [p EXCEPT !.transactions = MapSignatures(signatures), !.loading = FALSE,
                   !.fetches = RemoveAt(MarkOvertaken(@, i), i)]
    ELSE [p EXCEPT !.deadFetches = RemoveAt(@, i)]

\* (a faulty variant: the catch block empties the list)
fetchTransactionsCatchClears(p, live, i) ==
    IF live
    THEN [p EXCEPT !.transactions = <<>>, !.loading = FALSE, !.fetches = RemoveAt(@, i)]
    ELSE [p EXCEPT !.deadFetches = RemoveAt(@, i)]

\* it threw: catch (console.error only); finally
fetchTransactionsCatch(p, live, i) ==
    IF live
    THEN [p EXCEPT !.loading = FALSE, !.fetches = RemoveAt(@, i)]
    ELSE [p EXCEPT !.deadFetches = RemoveAt(@, i)]

fetchTransactionsCatchOut == <<ConsoleError("Failed to fetch transactions:")>>

(***************************************************************************)
(* What React does to the components when the shell's inputs change from   *)
(* (mounted, isConnected, wallet) to (m2, c2, w2): a component leaving     *)
(* the screen is unmounted (effect cleanups run, its state is dropped,     *)
(* its pending runs go on without it), one entering it starts from its     *)
(* initial state and runs its effects, and one staying runs cleanup and    *)
(* effect again when a dependency of the effect changed.                   *)
(***************************************************************************)
Entering(m2, c2) == ~DashboardShown(mounted, isConnected) /\ DashboardShown(m2, c2)
Leaving(m2, c2) == DashboardShown(mounted, isConnected) /\ ~DashboardShown(m2, c2)
DepsChanged(m2, c2, w2) ==
    /\ DashboardShown(mounted, isConnected) /\ DashboardShown(m2, c2)
    /\ (c2 # isConnected \/ w2 # wallet)

OverviewLifecycle(p, m2, c2, w2) ==
    IF Leaving(m2, c2) THEN OverviewUnmount(p)
    ELSE IF Entering(m2, c2) THEN OverviewEffect(p, c2, w2)
    ELSE IF DepsChanged(m2, c2, w2) THEN OverviewEffect(PollCleanup(p), c2, w2)
    ELSE p

OverviewLifecycleOut(p, m2, c2, w2) ==
    IF Leaving(m2, c2) THEN PollCleanupOut(p)
    ELSE IF Entering(m2, c2) THEN OverviewEffectOut(c2, w2)
    ELSE IF DepsChanged(m2, c2, w2) THEN PollCleanupOut(p) \o OverviewEffectOut(c2, w2)
    ELSE <<>>

HistoryLifecycle(p, m2, c2, w2) ==
    IF Leaving(m2, c2) THEN HistoryUnmount(p)
    ELSE IF Entering(m2, c2) THEN HistoryEffect(p, c2, w2)
    ELSE IF DepsChanged(m2, c2, w2) THEN HistoryEffect(PollCleanup(p), c2, w2)
    ELSE p

HistoryLifecycleOut(p, m2, c2, w2) ==
    IF Leaving(m2, c2) THEN PollCleanupOut(p)
    ELSE IF Entering(m2, c2) THEN HistoryEffectOut(c2, w2)
    ELSE IF DepsChanged(m2, c2, w2) THEN PollCleanupOut(p) \o HistoryEffectOut(c2, w2)
    ELSE <<>>

\* focus holds the dashboard components a specification follows; the others
\* are left out of it (no component reads another's state).
Components == {"overview", "history", "transfer", "sign"}

DashLifecycle(m2, c2, w2) ==
    /\ overview' = IF "overview" \in focus
                   THEN OverviewLifecycle(overview, m2, c2, w2) ELSE overview
    /\ history' = IF "history" \in focus
                  THEN HistoryLifecycle(history, m2, c2, w2) ELSE history
    /\ transfer' = IF "transfer" \in focus
                   THEN TransferLifecycle(transfer, m2, c2) ELSE transfer
    /\ sign' = IF "sign" \in focus THEN SignLifecycle(sign, m2, c2) ELSE sign

DashLifecycleOut(m2, c2, w2) ==
    (IF "overview" \in focus THEN OverviewLifecycleOut(overview, m2, c2, w2) ELSE <<>>)
    \o (IF "history" \in focus THEN HistoryLifecycleOut(history, m2, c2, w2) ELSE <<>>)

\* room for the fetches the effects would start (a bound of the model)
EffectRoom(m2, c2, w2) ==
    /\ "overview" \in focus
          => PendingFetches(OverviewLifecycle(overview, m2, c2, w2)) <= MaxFetches
    /\ "history" \in focus
          => PendingFetches(HistoryLifecycle(history, m2, c2, w2)) <= MaxFetches

(***************************************************************************)
(* Initial state: the page has just been rendered for the first time.  The *)
(* provider may have a stored session to restore (isConnecting is true     *)
(* while it checks).                                                       *)
(***************************************************************************)
StartThrown(F, e, t) ==
    /\ focus = F
    /\ env = e
    /\ thrown = t
    /\ mounted = FALSE
    /\ restoring \in BOOLEAN
    /\ isConnecting = restoring
    /\ isConnected = FALSE
    /\ wallet = NoWallet
    /\ login = LoginInit
    /\ overview = OverviewInit
    /\ history = HistoryInit
    /\ transfer = TransferInit
    /\ sign = SignInit
    /\ ev = [op |-> "init"]
    /\ out = <<>>
    /\ sinceFail = {}

\* thrown is used by SpecErrors only: ConnectRejectThrown
StartEnv(F, e) == StartThrown(F, e, "")

\* with no environment variable set
Start(F) == StartEnv(F, NoEnv)

Init == Start({})

(***************************************************************************)
(* AppShell and the SDK.                                                   *)
(***************************************************************************)
\* useEffect(() => { setMounted(true) }, [])
MountEffect ==
    /\ ~mounted
    /\ EffectRoom(TRUE, isConnected, wallet)
    /\ mounted' = TRUE
    /\ login' = LoginLifecycle(login, TRUE, isConnected)
    /\ DashLifecycle(TRUE, isConnected, wallet)
    /\ out' = DashLifecycleOut(TRUE, isConnected, wallet)
    /\ UNCHANGED <<focus, env, thrown>>
    /\ ev' = [op |-> "setMounted"]
    /\ UNCHANGED sinceFail
    /\ UNCHANGED sdkVars

\* the provider restores a stored session: auto-reconnect
SdkRestored(w) ==
    /\ restoring
    /\ EffectRoom(mounted, TRUE, w)
    /\ restoring' = FALSE
    /\ isConnecting' = FALSE
    /\ isConnected' = TRUE
    /\ wallet' = w
    /\ login' = LoginLifecycle(login, mounted, TRUE)
    /\ DashLifecycle(mounted, TRUE, w)
    /\ out' = DashLifecycleOut(mounted, TRUE, w)
    /\ UNCHANGED <<focus, env, thrown>>
    /\ ev' = [op |-> "sdk.restored", wallet |-> w]
    /\ UNCHANGED sinceFail
    /\ UNCHANGED mounted

\* the provider finds no session to restore
SdkNoSession ==
    /\ restoring
    /\ restoring' = FALSE
    /\ isConnecting' = FALSE
    /\ out' = <<>>
    /\ UNCHANGED <<focus, env, thrown>>
    /\ ev' = [op |-> "sdk.nosession"]
    /\ UNCHANGED sinceFail
    /\ UNCHANGED <<mounted, isConnected, wallet, login, dashVars>>

\* the SDK reports another wallet, or none, for the connected session
SdkWalletUpdate(w) ==
    /\ isConnected
    /\ w # wallet
    /\ EffectRoom(mounted, TRUE, w)
    /\ wallet' = w
    /\ DashLifecycle(mounted, TRUE, w)
    /\ out' = DashLifecycleOut(mounted, TRUE, w)
    /\ UNCHANGED <<focus, env, thrown>>
    /\ ev' = [op |-> "sdk.wallet", wallet |-> w]
    /\ UNCHANGED sinceFail
    /\ UNCHANGED <<mounted, isConnected, isConnecting, restoring, login>>

\* the Disconnect button: onClick={() => disconnect()}
ClickDisconnect ==
    /\ "Disconnect" \in AppShell
    /\ isConnected' = FALSE
    /\ wallet' = NoWallet
    /\ login' = LoginLifecycle(login, mounted, FALSE)
    /\ DashLifecycle(mounted, FALSE, NoWallet)
    /\ out' = <<SdkDisconnect>> \o DashLifecycleOut(mounted, FALSE, NoWallet)
    /\ UNCHANGED <<focus, env, thrown>>
    /\ ev' = [op |-> "disconnect"]
    /\ UNCHANGED sinceFail
    /\ UNCHANGED <<mounted, isConnecting, restoring>>

(***************************************************************************)
(* PasskeyLogin.                                                           *)
(***************************************************************************)
\* isConnecting once a connect() has settled: the SDK may or may not keep it
\* up for the connect() calls still pending
SettleConnecting(l) == IF PendingConnects(l) > 0 THEN BOOLEAN ELSE {FALSE}

\* the Login with Passkey button: onClick={handleLogin} disabled={isConnecting}
ClickLogin ==
    /\ "PasskeyLogin" \in AppShell
    /\ ~isConnecting
    /\ PendingConnects(login) < MaxConnects
    /\ login' = handleLogin(login, TRUE)
    /\ isConnecting' = TRUE
    /\ out' = handleLoginOut
    /\ UNCHANGED <<focus, env, thrown>>
    /\ ev' = [op |-> "handleLogin", by |-> "click", live |-> TRUE]
    /\ sinceFail' = sinceFail \ {"connect"}
    /\ UNCHANGED <<mounted, isConnected, wallet, restoring, dashVars>>

\* the Dismiss button and the overlay's background: onClick={dismissError}
ClickDismiss ==
    /\ "PasskeyLogin" \in AppShell
    /\ login.authError # Null
    /\ login' = dismissError(login)
    /\ out' = <<>>
    /\ UNCHANGED <<focus, env, thrown>>
    /\ ev' = [op |-> "dismissError", by |-> "click"]
    /\ UNCHANGED sinceFail
    /\ UNCHANGED <<mounted, sdkVars, dashVars>>

\* the Try Again button: dismissError(); setTimeout(handleLogin, 100)
ClickTryAgain ==
    /\ "PasskeyLogin" \in AppShell
    /\ login.authError # Null
    /\ PendingTimers(login) < MaxTimers
    /\ login' = [dismissError(login) EXCEPT !.timers = @ + 1]
    /\ out' = <<>>
    /\ UNCHANGED <<focus, env, thrown>>
    /\ ev' = [op |-> "tryAgain", by |-> "click"]
    /\ sinceFail' = sinceFail \ {"connect"}
    /\ UNCHANGED <<mounted, sdkVars, dashVars>>

\* a Try Again timer fires and runs handleLogin
RetryTimer(live) ==
    /\ IF live THEN login.timers > 0 ELSE login.deadTimers > 0
    /\ PendingConnects(login) < MaxConnects
    /\ login' = handleLogin(
                    IF live THEN [login EXCEPT !.timers = @ - 1]
                    ELSE [login EXCEPT !.deadTimers = @ - 1], live)
    /\ isConnecting' = TRUE
    /\ out' = handleLoginOut
    /\ UNCHANGED <<focus, env, thrown>>
    /\ ev' = [op |-> "handleLogin", by |-> "timer", live |-> live]
    /\ UNCHANGED sinceFail
    /\ UNCHANGED <<mounted, isConnected, wallet, restoring, dashVars>>

\* a connect() fulfils: the SDK is connected to wallet w, handleLogin goes on
ConnectFulfil(live, w) ==
    /\ EffectRoom(mounted, TRUE, w)
    /\ isConnected' = TRUE
    /\ wallet' = w
    /\ \E newest \in BOOLEAN :
          /\ MaySettle(login, live, newest)
          /\ login' = LoginLifecycle(
                          [handleLoginThen(login, live) EXCEPT
                              !.last = IF newest THEN "fulfilled" ELSE @],
                          mounted, TRUE)
    /\ isConnecting' \in SettleConnecting(login')
    /\ DashLifecycle(mounted, TRUE, w)
    /\ out' = handleLoginThenOut \o DashLifecycleOut(mounted, TRUE, w)
    /\ UNCHANGED <<focus, env, thrown>>
    /\ ev' = [op |-> "connect.fulfilled", live |-> live, wallet |-> w]
    /\ UNCHANGED sinceFail
    /\ UNCHANGED <<mounted, restoring>>

\* a connect() rejects with an error of message e: handleLogin's catch
ConnectReject(live, e) ==
    /\ \E newest \in BOOLEAN :
          /\ MaySettle(login, live, newest)
          /\ login' = [handleLoginCatch(login, live, e) EXCEPT
                          !.last = IF newest THEN "rejected" ELSE @]
    /\ isConnecting' \in SettleConnecting(login')
    /\ out' = handleLoginCatchOut
    /\ UNCHANGED <<focus, env, thrown>>
    /\ ev' = [op |-> "connect.rejected", live |-> live, error |-> e]
    /\ sinceFail' = sinceFail \cup {"connect"}
    /\ UNCHANGED <<mounted, isConnected, wallet, restoring, dashVars>>

ShellNext ==
    \/ MountEffect
    \/ \E w \in Wallets : SdkRestored(w)
    \/ SdkNoSession
    \/ ClickDisconnect

LoginNext ==
    \/ ClickLogin
    \/ ClickDismiss
    \/ ClickTryAgain
    \/ \E live \in BOOLEAN : RetryTimer(live)
    \/ \E live \in BOOLEAN, w \in Wallets : ConnectFulfil(live, w)
    \/ \E live \in BOOLEAN, e \in ErrorMessages : ConnectReject(live, e)

(***************************************************************************)
(* The shell and the login card.                                           *)
(***************************************************************************)
Next ==
    \/ ShellNext
    \/ LoginNext

Spec == Init /\ [][Next]_vars

(***************************************************************************)
(* The session as the dashboard components see it: the shell, one login at *)
(* a time, and the SDK changing the wallet it reports.                     *)
(***************************************************************************)
SessionNext ==
    \/ ShellNext
    \/ ClickLogin
    \/ \E w \in Wallets : ConnectFulfil(TRUE, w)
    \/ ConnectReject(TRUE, "")
    \/ \E w \in Wallets \cup {NoWallet} : SdkWalletUpdate(w)

(***************************************************************************)
(* SignMessage.                                                            *)
(***************************************************************************)
PendingSigns(s) == s.runs + s.deadRuns

\* the message input: onChange={(e) => setMessage(e.target.value)}
TypeMessage(m) ==
    /\ "sign" \in focus
    /\ "SignMessage" \in AppShell
    /\ m # sign.message
    /\ sign' = [sign EXCEPT !.message = m]
    /\ out' = <<>>
    /\ UNCHANGED <<focus, env, thrown>>
    /\ ev' = [op |-> "setMessage"]
    /\ UNCHANGED <<mounted, sdkVars, login, overview, history, transfer, sinceFail>>

\* handleSign is invoked
HandleSign ==
    /\ "sign" \in focus
    /\ "SignMessage" \in AppShell
    /\ ~SignBlank(sign) => PendingSigns(sign) < MaxSigns
    /\ sign' = handleSign(sign)
    /\ out' = handleSignOut(sign)
    /\ UNCHANGED <<focus, env, thrown>>
    /\ ev' = [op |-> "handleSign", by |-> "click", before |-> sign]
    /\ sinceFail' = sinceFail \ {"signMessage"}
    /\ UNCHANGED <<mounted, sdkVars, login, overview, history, transfer>>

\* the Sign with Passkey button: onClick={handleSign}, unless disabled
ClickSign ==
    /\ ~SignDisabled(sign)
    /\ HandleSign

\* a signMessage() fulfils with result: handleSign goes on
SignFulfil(live, result) ==
    /\ IF live THEN sign.runs > 0 ELSE sign.deadRuns > 0
    /\ sign' = handleSignThen(sign, live, result)
    /\ out' = handleSignThenOut
    /\ UNCHANGED <<focus, env, thrown>>
    /\ ev' = [op |-> "signMessage.fulfilled", live |-> live, result |-> result,
              before |-> sign]
    /\ UNCHANGED <<mounted, sdkVars, login, overview, history, transfer, sinceFail>>

\* a signMessage() rejects with an error of message e: handleSign's catch
SignReject(live, e) ==
    /\ IF live THEN sign.runs > 0 ELSE sign.deadRuns > 0
    /\ sign' = handleSignCatch(sign, live)
    /\ out' = handleSignCatchOut(e)
    /\ UNCHANGED <<focus, env, thrown>>
    /\ ev' = [op |-> "signMessage.rejected", live |-> live, error |-> e,
              before |-> sign]
    /\ sinceFail' = sinceFail \cup {"signMessage"}
    /\ UNCHANGED <<mounted, sdkVars, login, overview, history, transfer>>

SignSettle ==
    \/ \E live \in BOOLEAN, r \in SignResults : SignFulfil(live, r)
    \/ \E live \in BOOLEAN, e \in ErrorMessages : SignReject(live, e)

NextSign ==
    \/ SessionNext
    \/ \E m \in Messages : TypeMessage(m)
    \/ ClickSign
    \/ SignSettle

\* handleSign invoked in any state of the mounted component, whether or not
\* the button that calls it is enabled
NextSignHandler ==
    \/ SessionNext
    \/ \E m \in Messages : TypeMessage(m)
    \/ HandleSign
    \/ SignSettle

InitSign == Start({"sign"})

SpecSign == InitSign /\ [][NextSign]_vars

SpecSignHandler == InitSign /\ [][NextSignHandler]_vars

(***************************************************************************)
(* GaslessTransfer.                                                        *)
(***************************************************************************)
PendingTransfers(t) == t.runs + t.deadRuns

\* the recipient input: onChange={(e) => setRecipient(e.target.value)}
TypeRecipient(r) ==
    /\ "transfer" \in focus
    /\ "GaslessTransfer" \in AppShell
    /\ r # transfer.recipient
    /\ transfer' = [transfer EXCEPT !.recipient = r]
    /\ out' = <<>>
    /\ UNCHANGED <<focus, env, thrown>>
    /\ ev' = [op |-> "setRecipient"]
    /\ UNCHANGED <<mounted, sdkVars, login, overview, history, sign, sinceFail>>

\* the amount input: onChange={(e) => setAmount(e.target.value)}
TypeAmount(a) ==
    /\ "transfer" \in focus
    /\ "GaslessTransfer" \in AppShell
    /\ a # transfer.amount
    /\ transfer' = [transfer EXCEPT !.amount = a]
    /\ out' = <<>>
    /\ UNCHANGED <<focus, env, thrown>>
    /\ ev' = [op |-> "setAmount"]
    /\ UNCHANGED <<mounted, sdkVars, login, overview, history, sign, sinceFail>>

\* onClick={() => setGasless(!gasless)}
toggleGasless(t) == [t EXCEPT !.gasless = ~t.gasless]

\* the Gasless Mode button
ClickGasless ==
    /\ "transfer" \in focus
    /\ "GaslessTransfer" \in AppShell
    /\ transfer' = toggleGasless(transfer)
    /\ out' = <<>>
    /\ UNCHANGED <<focus, env, thrown>>
    /\ ev' = [op |-> "setGasless", before |-> transfer]
    /\ UNCHANGED <<mounted, sdkVars, login, overview, history, sign, sinceFail>>

\* handleTransfer is invoked
HandleTransfer ==
    /\ "transfer" \in focus
    /\ "GaslessTransfer" \in AppShell
    /\ TransferPath(transfer, smartWalletPubkey) = "sends"
          => PendingTransfers(transfer) < MaxTransfers
    /\ transfer' = handleTransfer(transfer, smartWalletPubkey)
    /\ out' = handleTransferOut(transfer, smartWalletPubkey)
    /\ UNCHANGED <<focus, env, thrown>>
    /\ ev' = [op |-> "handleTransfer", by |-> "click", before |-> transfer,
              pubkey |-> smartWalletPubkey]
    /\ sinceFail' = sinceFail \ {"signAndSendTransaction"}
    /\ UNCHANGED <<mounted, sdkVars, login, overview, history, sign>>

\* the Send Transaction button: onClick={handleTransfer}, unless disabled
ClickSend ==
    /\ ~SendDisabled(transfer, smartWalletPubkey)
    /\ HandleTransfer

\* a signAndSendTransaction() fulfils: handleTransfer goes on
TransferFulfil(live, signature) ==
    /\ IF live THEN transfer.runs > 0 ELSE transfer.deadRuns > 0
    /\ transfer' = handleTransferThen(transfer, live)
    /\ out' = handleTransferThenOut
    /\ UNCHANGED <<focus, env, thrown>>
    /\ ev' = [op |-> "signAndSendTransaction.fulfilled", live |-> live,
              signature |-> signature, before |-> transfer]
    /\ UNCHANGED <<mounted, sdkVars, login, overview, history, sign, sinceFail>>

\* a signAndSendTransaction() rejects: handleTransfer's catch
TransferReject(live, e) ==
    /\ IF live THEN transfer.runs > 0 ELSE transfer.deadRuns > 0
    /\ transfer' = handleTransferCatch(transfer, live)
    /\ out' = handleTransferCatchOut(e)
    /\ UNCHANGED <<focus, env, thrown>>
    /\ ev' = [op |-> "signAndSendTransaction.rejected", live |-> live,
              error |-> e, before |-> transfer]
    /\ sinceFail' = sinceFail \cup {"signAndSendTransaction"}
    /\ UNCHANGED <<mounted, sdkVars, login, overview, history, sign>>

TransferInput ==
    \/ \E r \in Recipients : TypeRecipient(r)
    \/ \E a \in Amounts : TypeAmount(a)
    \/ ClickGasless

TransferSettle ==
    \/ \E live \in BOOLEAN, sg \in TxSignatures : TransferFulfil(live, sg)
    \/ \E live \in BOOLEAN, e \in ErrorMessages : TransferReject(live, e)

NextTransfer ==
    \/ SessionNext
    \/ TransferInput
    \/ ClickSend
    \/ TransferSettle

InitTransfer == Start({"transfer"})

SpecTransfer == InitTransfer /\ [][NextTransfer]_vars

\* handleTransfer invoked in any state of the mounted component, whether or
\* not the button that calls it is enabled
NextTransferHandler ==
    \/ SessionNext
    \/ TransferInput
    \/ HandleTransfer
    \/ TransferSettle

SpecTransferHandler == InitTransfer /\ [][NextTransferHandler]_vars

(***************************************************************************)
(* WalletOverview and TransactionHistory.  A fetch run is live when the    *)
(* component instance that started it is still mounted; i is its place     *)
(* among the pending runs.                                                 *)
(***************************************************************************)
Runs(p, live) == IF live THEN p.fetches ELSE p.deadFetches

\* a tick of an interval of WalletOverview: fetchBalances()
OverviewTick(iv) ==
    /\ iv \in overview.intervals
    /\ PendingFetches(overview) < MaxFetches
    /\ LET live == overview.cleanup = Some(iv) IN
          /\ overview' = fetchBalances(overview, iv.wallet, live)
          /\ out' = fetchBalancesOut(iv.wallet)
          /\ UNCHANGED <<focus, env, thrown>>
          /\ ev' = [op |-> "tick", component |-> "overview", by |-> "timer",
                    live |-> live, before |-> overview]
    /\ UNCHANGED <<mounted, sdkVars, login, history, transfer, sign, sinceFail>>

\* the Refresh button: onClick={fetchBalances} disabled={loading}
ClickRefreshBalances ==
    /\ "overview" \in focus
    /\ "WalletOverview" \in AppShell
    /\ ~overview.loading
    /\ PendingFetches(overview) < MaxFetches
    /\ overview' = fetchBalances(overview, wallet, TRUE)
    /\ out' = fetchBalancesOut(wallet)
    /\ UNCHANGED <<focus, env, thrown>>
    /\ ev' = [op |-> "refresh", component |-> "overview", by |-> "click",
              live |-> TRUE, before |-> overview]
    /\ UNCHANGED <<mounted, sdkVars, login, history, transfer, sign, sinceFail>>

\* connection.getBalance(pubkey) fulfils
SolFulfil(live, i, lamports) ==
    /\ i \in 1..Len(Runs(overview, live))
    /\ Runs(overview, live)[i].stage = "sol"
    /\ overview' = fetchBalancesSol(overview, live, i, lamports)
    /\ out' = <<RpcGetTokenAccounts(Runs(overview, live)[i].wallet)>>
    /\ UNCHANGED <<focus, env, thrown>>
    /\ ev' = [op |-> "getBalance.fulfilled", live |-> live, run |-> i,
              result |-> lamports, before |-> overview]
    /\ UNCHANGED <<mounted, sdkVars, login, history, transfer, sign, sinceFail>>

\* connection.getBalance(pubkey) rejects
SolReject(live, i) ==
    /\ i \in 1..Len(Runs(overview, live))
    /\ Runs(overview, live)[i].stage = "sol"
    /\ overview' = fetchBalancesSolCatch(overview, live, i)
    /\ out' = fetchBalancesSolCatchOut
    /\ UNCHANGED <<focus, env, thrown>>
    /\ ev' = [op |-> "getBalance.rejected", live |-> live, run |-> i,
              before |-> overview]
    /\ UNCHANGED <<mounted, sdkVars, login, history, transfer, sign, sinceFail>>

\* connection.getParsedTokenAccountsByOwner(...) fulfils
UsdcFulfil(live, i, accounts) ==
    /\ i \in 1..Len(Runs(overview, live))
    /\ Runs(overview, live)[i].stage = "usdc"
    /\ overview' = fetchBalancesUsdc(overview, live, i, accounts)
    /\ out' = <<>>
    /\ UNCHANGED <<focus, env, thrown>>
    /\ ev' = [op |-> "getParsedTokenAccountsByOwner.fulfilled", live |-> live,
              run |-> i, result |-> accounts, before |-> overview]
    /\ UNCHANGED <<mounted, sdkVars, login, history, transfer, sign, sinceFail>>

\* connection.getParsedTokenAccountsByOwner(...) rejects
UsdcReject(live, i) ==
    /\ i \in 1..Len(Runs(overview, live))
    /\ Runs(overview, live)[i].stage = "usdc"
    /\ overview' = fetchBalancesUsdcCatch(overview, live, i)
    /\ out' = <<>>
    /\ UNCHANGED <<focus, env, thrown>>
    /\ ev' = [op |-> "getParsedTokenAccountsByOwner.rejected", live |-> live,
              run |-> i, before |-> overview]
    /\ UNCHANGED <<mounted, sdkVars, login, history, transfer, sign, sinceFail>>

\* a tick of an interval of TransactionHistory: fetchTransactions()
HistoryTick(iv) ==
    /\ iv \in history.intervals
    /\ PendingFetches(history) < MaxFetches
    /\ LET live == history.cleanup = Some(iv) IN
          /\ history' = fetchTransactions(history, iv.wallet, live)
          /\ out' = fetchTransactionsOut(iv.wallet)
          /\ UNCHANGED <<focus, env, thrown>>
          /\ ev' = [op |-> "tick", component |-> "history", by |-> "timer",
                    live |-> live, before |-> history]
    /\ UNCHANGED <<mounted, sdkVars, login, overview, transfer, sign, sinceFail>>

\* the refresh button: onClick={fetchTransactions} disabled={loading}
ClickRefreshTransactions ==
    /\ "history" \in focus
    /\ "TransactionHistory" \in AppShell
    /\ ~history.loading
    /\ PendingFetches(history) < MaxFetches
    /\ history' = fetchTransactions(history, wallet, TRUE)
    /\ out' = fetchTransactionsOut(wallet)
    /\ UNCHANGED <<focus, env, thrown>>
    /\ ev' = [op |-> "refresh", component |-> "history", by |-> "click",
              live |-> TRUE, before |-> history]
    /\ UNCHANGED <<mounted, sdkVars, login, overview, transfer, sign, sinceFail>>

\* connection.getSignaturesForAddress(...) fulfils
SignaturesFulfil(live, i, signatures) ==
    /\ i \in 1..Len(Runs(history, live))
    /\ history' = fetchTransactionsThen(history, live, i, signatures)
    /\ out' = <<>>
    /\ UNCHANGED <<focus, env, thrown>>
    /\ ev' = [op |-> "getSignaturesForAddress.fulfilled", live |-> live,
              run |-> i, result |-> signatures, before |-> history]
    /\ UNCHANGED <<mounted, sdkVars, login, overview, transfer, sign, sinceFail>>

\* connection.getSignaturesForAddress(...) rejects
SignaturesReject(live, i) ==
    /\ i \in 1..Len(Runs(history, live))
    /\ history' = fetchTransactionsCatch(history, live, i)
    /\ out' = fetchTransactionsCatchOut
    /\ UNCHANGED <<focus, env, thrown>>
    /\ ev' = [op |-> "getSignaturesForAddress.rejected", live |-> live,
              run |-> i, before |-> history]
    /\ UNCHANGED <<mounted, sdkVars, login, overview, transfer, sign, sinceFail>>

RunIndex == 1..MaxFetches

OverviewNext ==
    \/ \E iv \in overview.intervals : OverviewTick(iv)
    \/ ClickRefreshBalances
    \/ \E live \in BOOLEAN, i \in RunIndex, b \in LamportBalances : SolFulfil(live, i, b)
    \/ \E live \in BOOLEAN, i \in RunIndex : SolReject(live, i)
    \/ \E live \in BOOLEAN, i \in RunIndex, a \in TokenAccountLists : UsdcFulfil(live, i, a)
    \/ \E live \in BOOLEAN, i \in RunIndex : UsdcReject(live, i)

HistoryNext ==
    \/ \E iv \in history.intervals : HistoryTick(iv)
    \/ ClickRefreshTransactions
    \/ \E live \in BOOLEAN, i \in RunIndex, sg \in SignatureLists :
          SignaturesFulfil(live, i, sg)
    \/ \E live \in BOOLEAN, i \in RunIndex : SignaturesReject(live, i)

NextPoll ==
    \/ SessionNext
    \/ OverviewNext
    \/ HistoryNext

InitPoll == \E c \in {"overview", "history"} : Start({c})

SpecPoll == InitPoll /\ [][NextPoll]_vars

(***************************************************************************)
(* The polling components of a restored session, under every environment.  *)
(***************************************************************************)
InitConfig ==
    \E e \in Envs, c \in {"overview", "history"} : StartEnv({c}, e)

NextConfig ==
    \/ ShellNext
    \/ OverviewNext
    \/ HistoryNext

SpecConfig == InitConfig /\ [][NextConfig]_vars

(***************************************************************************)
(* The application with one dashboard component followed at a time.        *)
(***************************************************************************)
InitApp == \E c \in Components : Start({c})

NextApp ==
    \/ SessionNext
    \/ \E m \in Messages : TypeMessage(m)
    \/ ClickSign
    \/ SignSettle
    \/ TransferInput
    \/ ClickSend
    \/ TransferSettle
    \/ OverviewNext
    \/ HistoryNext

SpecApp == InitApp /\ [][NextApp]_vars

(***************************************************************************)
(* The application when a catch block may itself throw (console.error or   *)
(* toast.error raising): what the block had called so far stays called,    *)
(* the rest of it is skipped, and the finally block runs all the same.     *)
(* Every SDK or RPC call that is pending settles in the end.               *)
(***************************************************************************)
SignCatchThrows(live) ==
    /\ IF live THEN sign.runs > 0 ELSE sign.deadRuns > 0
    /\ sign' = handleSignCatch(sign, live)
    /\ out' = <<ConsoleError("Sign message failed:")>>
    /\ UNCHANGED <<focus, env, thrown>>
    /\ ev' = [op |-> "catch.threw", call |-> "signMessage", live |-> live,
              before |-> sign]
    /\ sinceFail' = sinceFail \cup {"signMessage"}
    /\ UNCHANGED <<mounted, sdkVars, login, overview, history, transfer>>

TransferCatchThrows(live) ==
    /\ IF live THEN transfer.runs > 0 ELSE transfer.deadRuns > 0
    /\ transfer' = handleTransferCatch(transfer, live)
    /\ out' = <<ConsoleError("Transfer failed:")>>
    /\ UNCHANGED <<focus, env, thrown>>
    /\ ev' = [op |-> "catch.threw", call |-> "signAndSendTransaction",
              live |-> live, before |-> transfer]
    /\ sinceFail' = sinceFail \cup {"signAndSendTransaction"}
    /\ UNCHANGED <<mounted, sdkVars, login, overview, history, sign>>

BalancesCatchThrows(live, i) ==
    /\ i \in 1..Len(Runs(overview, live))
    /\ Runs(overview, live)[i].stage = "sol"
    /\ overview' = fetchBalancesSolCatch(overview, live, i)
    /\ out' = <<ConsoleError("Failed to fetch balances:")>>
    /\ UNCHANGED <<focus, env, thrown>>
    /\ ev' = [op |-> "catch.threw", call |-> "getBalance", live |-> live,
              run |-> i, before |-> overview]
    /\ UNCHANGED <<mounted, sdkVars, login, history, transfer, sign, sinceFail>>

TransactionsCatchThrows(live, i) ==
    /\ i \in 1..Len(Runs(history, live))
    /\ history' = fetchTransactionsCatch(history, live, i)
    /\ out' = <<>>
    /\ UNCHANGED <<focus, env, thrown>>
    /\ ev' = [op |-> "catch.threw", call |-> "getSignaturesForAddress",
              live |-> live, run |-> i, before |-> history]
    /\ UNCHANGED <<mounted, sdkVars, login, overview, transfer, sign, sinceFail>>

CatchThrows ==
    \/ \E live \in BOOLEAN : SignCatchThrows(live)
    \/ \E live \in BOOLEAN : TransferCatchThrows(live)
    \/ \E live \in BOOLEAN, i \in RunIndex : BalancesCatchThrows(live, i)
    \/ \E live \in BOOLEAN, i \in RunIndex : TransactionsCatchThrows(live, i)

OverviewSettle ==
    \/ \E live \in BOOLEAN, i \in RunIndex, b \in LamportBalances : SolFulfil(live, i, b)
    \/ \E live \in BOOLEAN, i \in RunIndex : SolReject(live, i)
    \/ \E live \in BOOLEAN, i \in RunIndex, a \in TokenAccountLists : UsdcFulfil(live, i, a)
    \/ \E live \in BOOLEAN, i \in RunIndex : UsdcReject(live, i)

HistorySettle ==
    \/ \E live \in BOOLEAN, i \in RunIndex, sg \in SignatureLists :
          SignaturesFulfil(live, i, sg)
    \/ \E live \in BOOLEAN, i \in RunIndex : SignaturesReject(live, i)

\* one wallet: which wallet is connected plays no part in how a run ends
SettleSession ==
    \/ ShellNext
    \/ ClickLogin
    \/ ConnectFulfil(TRUE, "W1")

NextSettle ==
    \/ SettleSession
    \/ \E m \in Messages : TypeMessage(m)
    \/ ClickSign
    \/ SignSettle
    \/ TransferInput
    \/ ClickSend
    \/ TransferSettle
    \/ OverviewNext
    \/ HistoryNext
    \/ CatchThrows

SpecSettle ==
    /\ InitApp
    /\ [][NextSettle]_vars
    /\ WF_vars(SignSettle)
    /\ WF_vars(TransferSettle)
    /\ WF_vars(OverviewSettle)
    /\ WF_vars(HistorySettle)

(***************************************************************************)
(* The login screen when connect() rejects with an error whose message is  *)
(* thrown, one of ThrownMessages.                                          *)
(***************************************************************************)
ConnectRejectThrown == ConnectReject(TRUE, thrown)

InitErrors == \E t \in ThrownMessages : StartThrown({}, NoEnv, t)

NextErrors ==
    \/ MountEffect
    \/ SdkNoSession
    \/ ClickLogin
    \/ ConnectRejectThrown
    \/ ClickDismiss

SpecErrors == InitErrors /\ [][NextErrors]_vars

(***************************************************************************)
(* C1. Every run of handleLogin calls connect() exactly once; when the     *)
(* connect() fulfils a success toast is shown and authError is null; when  *)
(* it rejects no success toast is shown and authError holds the error's    *)
(* message ("Authentication failed" for an empty one) and the type         *)
(* getErrorType gives, so that the error overlay is on screen.             *)
(***************************************************************************)
ExpectedAuthError(e) ==
    [message |-> IF e = "" THEN "Authentication failed" ELSE e,
     type |-> getErrorType(e)]

OverlayShown == "PasskeyLogin" \in AppShell /\ login.authError # Null

C1_LoginOutcome ==
    /\ ev.op = "handleLogin" => Cardinality(Calls("connect")) = 1
    /\ ev.op = "connect.fulfilled" =>
          /\ Calls("toast.success") # {}
          /\ login.authError = Null
    /\ ev.op = "connect.rejected" =>
          /\ Calls("toast.success") = {}
          /\ login.authError = Some(ExpectedAuthError(ev.error))
          /\ OverlayShown

(***************************************************************************)
(* C2. AppShell shows exactly one of three screens: the spinner while      *)
(* mounted is false, whatever isConnected is; the login card when mounted  *)
(* is true and isConnected false; the dashboard when both are true.  And   *)
(* mounted never goes back from true to false.                             *)
(***************************************************************************)
C2_Screen ==
    /\ ~mounted => AppShell = {"Spinner"}
    /\ (mounted /\ ~isConnected) => AppShell = {"PasskeyLogin"}
    /\ (mounted /\ isConnected) =>
          AppShell = {"WalletOverview", "GaslessTransfer", "SignMessage",
                      "TransactionHistory", "Disconnect"}

C2_ThreeScreens == []C2_Screen /\ [][mounted => mounted']_vars

C2_Witness == ~mounted /\ isConnected /\ AppShell = {"Spinner"}

(***************************************************************************)
(* C3. While a polling component is mounted with isConnected true and a    *)
(* wallet address set, it has an interval of 10 s (WalletOverview) or 30 s *)
(* (TransactionHistory); the step that makes this condition hold starts    *)
(* exactly one fetch for the address, every tick of the interval starts    *)
(* exactly one more, and while the condition is false there is no          *)
(* interval and no step starts a fetch.                                    *)
(***************************************************************************)
PollOn == "WalletOverview" \in AppShell /\ isConnected /\ wallet # NoWallet

PollState(c) == IF c = "overview" THEN overview ELSE history

ExpectedInterval(c, w) ==
    IF c = "overview"
    THEN [handler |-> "fetchBalances", wallet |-> w, ms |-> 10000]
    ELSE [handler |-> "fetchTransactions", wallet |-> w, ms |-> 30000]

FetchCall(c) == IF c = "overview" THEN "getBalance" ELSE "getSignaturesForAddress"

FetchStarts(o, c) == {i \in 1..Len(o) : o[i].call = FetchCall(c)}

C3_Intervals ==
    \A c \in focus \cap {"overview", "history"} :
        PollState(c).intervals = IF PollOn THEN {ExpectedInterval(c, wallet)} ELSE {}

C3_Step ==
    \A c \in focus \cap {"overview", "history"} :
        /\ (~PollOn /\ PollOn') =>
              /\ Cardinality(FetchStarts(out', c)) = 1
              /\ \A i \in FetchStarts(out', c) : out'[i].pubkey = wallet'
        /\ (ev'.op = "tick" /\ ev'.component = c) =>
              /\ PollOn
              /\ Cardinality(FetchStarts(out', c)) = 1
              /\ \A i \in FetchStarts(out', c) : out'[i].pubkey = wallet
              /\ Len(PollState(c).fetches') = Len(PollState(c).fetches) + 1
        /\ ~PollOn' =>
              /\ FetchStarts(out', c) = {}
              /\ CallsIn(out', "setInterval") = {}

C3_Polling == []C3_Intervals /\ [][C3_Step]_vars

C3_Witness ==
    /\ ev.op = "tick"
    /\ ev.component = "history"
    /\ Len(history.fetches) = 2
    /\ history.intervals = {[handler |-> "fetchTransactions", wallet |-> wallet, ms |-> 30000]}

(***************************************************************************)
(* C4. A polling component never has more than one interval; a step that   *)
(* tears the component down, disconnects or changes the wallet address     *)
(* clears the interval there was, before it creates another; and no tick   *)
(* happens while disconnected.                                             *)
(***************************************************************************)
C4_AtMostOne ==
    /\ \A c \in {"overview", "history"} :
          /\ Cardinality(PollState(c).intervals) <= 1
          /\ ~isConnected => PollState(c).intervals = {}
    /\ ev.op = "tick" => isConnected

C4_Step ==
    \A c \in focus \cap {"overview", "history"} :
        (/\ PollState(c).intervals # {}
         /\ \/ AppShell' # AppShell
            \/ isConnected' # isConnected
            \/ wallet' # wallet)
        =>
        \E i \in CallsIn(out', "clearInterval") :
            /\ out'[i].interval \in PollState(c).intervals
            /\ \A j \in CallsIn(out', "setInterval") : i < j

C4_OneInterval == []C4_AtMostOne /\ [][C4_Step]_vars

C4_Witness ==
    /\ ev.op = "sdk.wallet"
    /\ wallet # NoWallet
    /\ CallsIn(out, "clearInterval") # {}
    /\ CallsIn(out, "setInterval") # {}

(***************************************************************************)
(* C5. Every error a component catches is shown to the user: the overlay   *)
(* for a rejected connect, an error toast for a rejected signMessage, a    *)
(* rejected or invalid transfer, a failed SOL balance fetch, a failed USDC *)
(* token-account fetch and a failed transaction-history fetch.             *)
(***************************************************************************)
InvalidTransfer ==
    /\ ev.op = "handleTransfer"
    /\ ev.pubkey # NoWallet
    /\ ev.before.amount # ""
    /\ ev.before.recipient = "not-an-address"

SdkMethods == {"connect", "signMessage", "signAndSendTransaction"}

C6_NoCallWithoutClick ==
    [][\A m \in SdkMethods :
          (CallsIn(out', m) # {} /\ m \in sinceFail) => ev'.by = "click"]_vars

(***************************************************************************)
(* C7. GaslessTransfer starts with gasless on and the toggle flips it; a   *)
(* transfer with a valid recipient and an amount calls                     *)
(* signAndSendTransaction once, with the one transfer instruction and      *)
(* with {feeToken: 'USDC'} if gasless was on at the click, undefined if    *)
(* it was off.                                                             *)
(***************************************************************************)
JustEntered ==
    /\ ev.op \in {"setMounted", "sdk.restored", "connect.fulfilled"}
    /\ "transfer" \in focus
    /\ "GaslessTransfer" \in AppShell

ExpectedLamports(a) == CASE a = "1" -> 1000000000 [] a = "0.5" -> 500000000

C7_GaslessMode ==
    /\ JustEntered => transfer.gasless = TRUE
    /\ ev.op = "setGasless" => transfer.gasless = ~ev.before.gasless
    /\ (/\ ev.op = "handleTransfer"
        /\ ev.pubkey # NoWallet
        /\ ev.before.recipient = ValidAddress
        /\ ev.before.amount # "") =>
          out = <<[call |-> "signAndSendTransaction",
                   instructions |->
                       <<[program |-> "SystemProgram.transfer",
                          fromPubkey |-> ev.pubkey,
                          toPubkey |-> ev.before.recipient,
                          lamports |-> ExpectedLamports(ev.before.amount)]>>,
                   transactionOptions |->
                       IF ev.before.gasless THEN <<[feeToken |-> "USDC"]>>
                       ELSE <<>>]>>

C7_Witness ==
    /\ ev.op = "handleTransfer"
    /\ ~ev.before.gasless
    /\ Calls("signAndSendTransaction") # {}

(***************************************************************************)
(* C8. handleTransfer invoked without a smartWalletPubkey does nothing at  *)
(* all; invoked with an empty recipient or amount it only shows the        *)
(* 'Please fill in all fields' toast; in both cases it does not call       *)
(* signAndSendTransaction, does not touch loading and leaves recipient,    *)
(* amount and gasless as they were.                                        *)
(***************************************************************************)
C8_GuardsStop ==
    (/\ ev.op = "handleTransfer"
     /\ (ev.pubkey = NoWallet \/ ev.before.recipient = "" \/ ev.before.amount = ""))
    =>
    /\ Calls("signAndSendTransaction") = {}
    /\ transfer.loading = ev.before.loading
    /\ transfer.runs = ev.before.runs
    /\ transfer.recipient = ev.before.recipient
    /\ transfer.amount = ev.before.amount
    /\ transfer.gasless = ev.before.gasless
    /\ ev.pubkey = NoWallet => out = <<>> /\ transfer = ev.before
    /\ ev.pubkey # NoWallet =>
          out = <<[call |-> "toast.error", title |-> "Please fill in all fields"]>>

C8_Witness ==
    /\ ev.op = "handleTransfer"
    /\ ev.pubkey # NoWallet
    /\ ev.before.recipient = ""
    /\ ev.before.loading
    /\ Calls("toast.error") # {}

(***************************************************************************)
(* C9. handleTransfer past those two checks, with a recipient that is not  *)
(* a valid public key: signAndSendTransaction is not called, the           *)
(* 'Transfer failed' toast is shown, recipient and amount stay, and        *)
(* loading ends false.                                                     *)
(***************************************************************************)
C9_InvalidRecipient ==
    (/\ ev.op = "handleTransfer"
     /\ ev.pubkey # NoWallet
     /\ ev.before.amount # ""
     /\ ev.before.recipient \notin {"", ValidAddress})
    =>
    /\ Calls("signAndSendTransaction") = {}
    /\ \E i \in Calls("toast.error") : out[i].title = "Transfer failed"
    /\ transfer.recipient = ev.before.recipient
    /\ transfer.amount = ev.before.amount
    /\ ~transfer.loading

C9_Witness ==
    /\ ev.op = "handleTransfer"
    /\ ev.before.recipient = "not-an-address"
    /\ ev.before.amount = "1"
    /\ Calls("toast.error") # {}

(***************************************************************************)
(* C10. handleSign with a message that is not blank calls signMessage      *)
(* once, with the message of the input; when that fulfils the signature    *)
(* shown is the string returned, or the signature field of the object      *)
(* returned, and a success toast is shown; when it rejects an error toast  *)
(* is shown and no signature is shown.                                     *)
(***************************************************************************)
NotBlank == {"gm", " hi "}

ExpectedSignature(result) ==
    IF result = [typeof |-> "string", value |-> "sigA"] THEN "sigA" ELSE "sigB"

C10_CallsOnce ==
    (ev.op = "handleSign" /\ ev.before.message \in NotBlank) =>
        out = <<[call |-> "signMessage", message |-> ev.before.message]>>

\* as claimed: whenever the promise settles
C10_SignOutcome ==
    /\ C10_CallsOnce
    /\ ev.op = "signMessage.fulfilled" =>
          /\ sign.signature = <<ExpectedSignature(ev.result)>>
          /\ Calls("toast.success") # {}
    /\ ev.op = "signMessage.rejected" =>
          /\ Calls("toast.error") # {}
          /\ sign.signature = <<>>

\* amended: the signature part, for a run whose SignMessage is still mounted
C10_SignOutcomeMounted ==
    /\ C10_CallsOnce
    /\ ev.op = "signMessage.fulfilled" =>
          /\ ev.live => sign.signature = <<ExpectedSignature(ev.result)>>
          /\ Calls("toast.success") # {}
    /\ ev.op = "signMessage.rejected" =>
          /\ Calls("toast.error") # {}
          /\ ev.live => sign.signature = <<>>

C10_Witness ==
    /\ ev.op = "signMessage.fulfilled"
    /\ ev.live
    /\ ev.result.typeof = "object"
    /\ sign.signature = <<"sigB">>

(***************************************************************************)
(* C11. handleSign with an empty or all-blank message shows the 'Please    *)
(* enter a message to sign' toast, does not call signMessage and leaves    *)
(* loading, signature and message as they were; the Sign button is         *)
(* disabled exactly when the message is blank or loading is true.          *)
(***************************************************************************)
Blank == {"", "  "}

C11_BlankMessage ==
    /\ (ev.op = "handleSign" /\ ev.before.message \in Blank) =>
          /\ out = <<[call |-> "toast.error", title |-> "Please enter a message to sign"]>>
          /\ sign.loading = ev.before.loading
          /\ sign.signature = ev.before.signature
          /\ sign.message = ev.before.message
          /\ sign.runs = ev.before.runs
    /\ SignDisabled(sign) <=> (sign.message \in Blank \/ sign.loading)

C11_Witness ==
    /\ ev.op = "handleSign"
    /\ ev.before.message = "  "
    /\ sign.signature # <<>>
    /\ Calls("toast.error") # {}

(***************************************************************************)
(* C12. While the SDK reports isConnecting true the shell shows a loading  *)
(* screen, neither the login card nor the dashboard.                       *)
(***************************************************************************)
C12_LoadingWhileConnecting == isConnecting => AppShell = {"Spinner"}

(***************************************************************************)
(* C13. After signAndSendTransaction fulfils, the recipient field and the  *)
(* amount field are both empty; after it rejects, both fields hold what    *)
(* they held before.                                                       *)
(***************************************************************************)
C13_FieldsCleared ==
    /\ (ev.op = "signAndSendTransaction.fulfilled" /\ ev.live) =>
          /\ transfer.recipient = ""
          /\ transfer.amount = ""
    /\ (ev.op = "signAndSendTransaction.rejected" /\ ev.live) =>
          /\ transfer.recipient = ev.before.recipient
          /\ transfer.amount = ev.before.amount

(***************************************************************************)
(* C14. The transaction list never holds more than 5 entries, and after a  *)
(* getSignaturesForAddress has fulfilled the list is the answer, in its    *)
(* order: signature, slot and err of each entry as returned, blockTime as  *)
(* returned or null when it was left out.                                  *)
(***************************************************************************)
ExpectedTransaction(sig) ==
    [signature |-> sig.signature, slot |-> sig.slot, err |-> sig.err,
     blockTime |-> IF sig.blockTime = [tag |-> "undefined"]
                   THEN [tag |-> "null"] ELSE sig.blockTime]

ListIsAnswer ==
    /\ Len(history.transactions) = Len(ev.result)
    /\ \A k \in 1..Len(ev.result) :
          history.transactions[k] = ExpectedTransaction(ev.result[k])

ExpectedUrl(name, default) ==
    IF env[name] \in {<<>>, <<"">>} THEN default ELSE env[name][1]

ExpectedRpcUrl == ExpectedUrl("NEXT_PUBLIC_RPC_URL", "https://api.devnet.solana.com")
ExpectedPortalUrl == ExpectedUrl("NEXT_PUBLIC_PORTAL_URL", "https://portal.lazor.sh")
ExpectedPaymasterUrl ==
    ExpectedUrl("NEXT_PUBLIC_PAYMASTER_URL", "https://kora.devnet.lazorkit.com")

RpcRequests ==
    {i \in 1..Len(out) :
        out[i].call \in {"getBalance", "getParsedTokenAccountsByOwner",
                         "getSignaturesForAddress"}}

C15_Config ==
    /\ LAZORKIT_CONFIG.rpcUrl = ExpectedRpcUrl
    /\ LAZORKIT_CONFIG.portalUrl = ExpectedPortalUrl
    /\ LAZORKIT_CONFIG.paymasterConfig.paymasterUrl = ExpectedPaymasterUrl
    /\ LazorTxProvider =
          [rpcUrl |-> ExpectedRpcUrl, portalUrl |-> ExpectedPortalUrl,
           paymasterConfig |-> [paymasterUrl |-> ExpectedPaymasterUrl]]
    /\ \A i \in RpcRequests : out[i].rpcUrl = ExpectedRpcUrl

C15_Witness ==
    /\ env["NEXT_PUBLIC_RPC_URL"] = <<"">>
    /\ env["NEXT_PUBLIC_PORTAL_URL"] = <<"https://custom.example">>
    /\ \E i \in RpcRequests :
          /\ out[i].call = "getParsedTokenAccountsByOwner"
          /\ out[i].rpcUrl = "https://api.devnet.solana.com"

(***************************************************************************)
(* C16. At most one signAndSendTransaction call and at most one            *)
(* signMessage call is in flight at any time.                              *)
(***************************************************************************)
\* as claimed: counting every call that has not settled
C16_OneInFlight ==
    /\ transfer.runs + transfer.deadRuns <= 1
    /\ sign.runs + sign.deadRuns <= 1

\* amended: counting the calls of the component instance that is mounted; a
\* click starts a call only when that instance has none in flight
C16_OneInFlightPerInstance ==
    /\ transfer.runs <= 1
    /\ sign.runs <= 1
    /\ (ev.op = "handleTransfer" /\ Calls("signAndSendTransaction") # {}) =>
          ev.before.runs = 0
    /\ (ev.op = "handleSign" /\ Calls("signMessage") # {}) =>
          ev.before.runs = 0

C16_Witness ==
    /\ ev.op = "handleTransfer"
    /\ Calls("signAndSendTransaction") # {}
    /\ transfer.runs = 1
    /\ transfer.deadRuns = 1

(***************************************************************************)
(* C17. At most one connect() call of PasskeyLogin is in flight at any     *)
(* time.                                                                   *)
(***************************************************************************)
C17_OneConnect == login.connects + login.deadConnects <= 1

(***************************************************************************)
(* C18. An answer applied to the balances or to the transaction list is    *)
(* never the answer of a fetch started before one whose answer has been    *)
(* applied already.                                                        *)
(***************************************************************************)
AnswerApplied ==
    /\ ev.op \in {"getBalance.fulfilled", "getParsedTokenAccountsByOwner.fulfilled",
                  "getSignaturesForAddress.fulfilled"}
    /\ ev.live

C18_LatestFetchWins ==
    AnswerApplied => ~ev.before.fetches[ev.run].overtaken

(***************************************************************************)
(* C19. In WalletOverview and in TransactionHistory loading is true        *)
(* exactly when a fetch of the component is in flight.                     *)
(***************************************************************************)
C19_LoadingIffInFlight ==
    \A c \in focus \cap {"overview", "history"} :
        PollState(c).loading <=> Len(PollState(c).fetches) > 0

(***************************************************************************)
(* C20. A fetch that settles after its dashboard was torn down shows no    *)
(* toast and changes no balance and no transaction list.                   *)
(***************************************************************************)
LateBalances ==
    /\ ev.op \in {"getBalance.fulfilled", "getBalance.rejected",
                  "getParsedTokenAccountsByOwner.fulfilled",
                  "getParsedTokenAccountsByOwner.rejected"}
    /\ ~ev.live

LateTransactions ==
    /\ ev.op \in {"getSignaturesForAddress.fulfilled",
                  "getSignaturesForAddress.rejected"}
    /\ ~ev.live

C20_LateFetchInvisible ==
    /\ LateBalances =>
          /\ Calls("toast.error") = {}
          /\ overview.solBalance = ev.before.solBalance
          /\ overview.usdcBalance = ev.before.usdcBalance
    /\ LateTransactions =>
          /\ Calls("toast.error") = {}
          /\ history.transactions = ev.before.transactions

(***************************************************************************)
(* C21. A run of handleSign, handleTransfer, fetchBalances or              *)
(* fetchTransactions whose call has fulfilled or rejected leaves loading   *)
(* false, also when its catch block threw; and as the calls settle in the  *)
(* end, loading true leads to loading false in each component.             *)
(***************************************************************************)
RunEnded ==
    /\ ev.op \in {"signMessage.fulfilled", "signMessage.rejected",
                  "signAndSendTransaction.fulfilled", "signAndSendTransaction.rejected",
                  "getBalance.rejected",
                  "getParsedTokenAccountsByOwner.fulfilled",
                  "getParsedTokenAccountsByOwner.rejected",
                  "getSignaturesForAddress.fulfilled",
                  "getSignaturesForAddress.rejected", "catch.threw"}
    /\ ev.live

LoadingOfRun ==
    IF ev.op = "catch.threw"
    THEN CASE ev.call = "signMessage" -> sign.loading
           [] ev.call = "signAndSendTransaction" -> transfer.loading
           [] ev.call = "getBalance" -> overview.loading
           [] ev.call = "getSignaturesForAddress" -> history.loading
    ELSE CASE ev.op \in {"signMessage.fulfilled", "signMessage.rejected"} -> sign.loading
           [] ev.op \in {"signAndSendTransaction.fulfilled",
                         "signAndSendTransaction.rejected"} -> transfer.loading
           [] ev.op \in {"getSignaturesForAddress.fulfilled",
                         "getSignaturesForAddress.rejected"} -> history.loading
           [] OTHER -> overview.loading

C21_RunResets == RunEnded => ~LoadingOfRun

C21_LoadingEnds ==
    /\ []C21_RunResets
    /\ sign.loading ~> ~sign.loading
    /\ transfer.loading ~> ~transfer.loading
    /\ overview.loading ~> ~overview.loading
    /\ history.loading ~> ~history.loading

C21_Witness ==
    /\ ev.op = "catch.threw"
    /\ ev.call = "signAndSendTransaction"
    /\ ev.live
    /\ ev.before.loading
    /\ ~transfer.loading

(***************************************************************************)
(* C22. In fetchBalances a rejected SOL request shows the toast 'Failed to *)
(* fetch balances', ends the run without the USDC request and leaves both  *)
(* balances; a rejected USDC request leaves solBalance, sets usdcBalance   *)
(* to 0 and shows nothing; a fulfilled USDC request sets usdcBalance to 0  *)
(* for no token account and to the first account's uiAmount otherwise.     *)
(***************************************************************************)
ExpectedUsdc == IF ev.result = <<>> THEN 0 ELSE Head(ev.result)

C22_SolFailure ==
    ev.op = "getBalance.rejected" =>
        /\ ToastError("Failed to fetch balances") \in {out[k] : k \in DOMAIN out}
        /\ Calls("getParsedTokenAccountsByOwner") = {}
        /\ Len(Runs(overview, ev.live)) = Len(Runs(ev.before, ev.live)) - 1
        /\ overview.solBalance = ev.before.solBalance
        /\ overview.usdcBalance = ev.before.usdcBalance

C22_UsdcAnswer(mountedOnly) ==
    /\ ev.op = "getParsedTokenAccountsByOwner.rejected" =>
          /\ overview.solBalance = ev.before.solBalance
          /\ (mountedOnly => ev.live) => overview.usdcBalance = Some(0)
          /\ Calls("toast.error") = {}
    /\ ev.op = "getParsedTokenAccountsByOwner.fulfilled" =>
          ((mountedOnly => ev.live) => overview.usdcBalance = Some(ExpectedUsdc))

\* as stated: for every run of fetchBalances
C22_Balances == C22_SolFailure /\ C22_UsdcAnswer(FALSE)

\* amended: the USDC answer of a run whose WalletOverview was unmounted
\* meanwhile changes nothing
C22_BalancesMounted ==
    /\ C22_SolFailure
    /\ C22_UsdcAnswer(TRUE)
    /\ (ev.op \in {"getParsedTokenAccountsByOwner.rejected",
                   "getParsedTokenAccountsByOwner.fulfilled"} /\ ~ev.live)
          => /\ overview.solBalance = ev.before.solBalance
             /\ overview.usdcBalance = ev.before.usdcBalance

C22_Witness ==
    /\ ev.op = "getParsedTokenAccountsByOwner.fulfilled"
    /\ ev.live
    /\ ev.result = <<7, 9>>
    /\ ev.before.usdcBalance = Some(0)
    /\ overview.solBalance = Some(SolOf(1500000000))
    /\ overview.usdcBalance = Some(7)

(***************************************************************************)
(* C23. The step in which getSignaturesForAddress rejects leaves the       *)
(* transaction list as it was; fetchBalances and fetchTransactions invoked *)
(* while wallet.smartWallet is absent change no state of their component   *)
(* and make no RPC request (no call at all).                               *)
(***************************************************************************)
FetchWithoutWallet == ev.op = "refresh" /\ wallet = NoWallet

C23_FailedFetchFrame ==
    /\ ev.op = "getSignaturesForAddress.rejected" =>
          /\ history.transactions = ev.before.transactions
          /\ Calls("getSignaturesForAddress") = {}
    /\ FetchWithoutWallet =>
          /\ out = <<>>
          /\ ev.component = "overview" => overview = ev.before
          /\ ev.component = "history" => history = ev.before

C23_Witness ==
    /\ ev.op = "getSignaturesForAddress.rejected"
    /\ ev.live
    /\ Len(ev.before.transactions) = 2
    /\ history.transactions = ev.before.transactions

C23_WitnessNoWallet ==
    /\ FetchWithoutWallet
    /\ ev.component = "overview"
    /\ overview.solBalance # Null

(***************************************************************************)
(* C24. In SignMessage the signature is null whenever loading is true. It  *)
(* is non-null only if the most recent handleSign that passed the blank    *)
(* check fulfilled: no run of the mounted instance is pending while a      *)
(* signature is shown, a handleSign that passes the check clears the       *)
(* signature, a rejection leaves it null, and the signature only becomes   *)
(* (or changes to) a value in the step in which the one pending run of the *)
(* mounted instance, the most recent handleSign, fulfils.                  *)
(***************************************************************************)
C24_State ==
    /\ sign.loading => sign.signature = Null
    /\ sign.signature # Null => sign.runs = 0
    /\ (ev.op = "handleSign" /\ ~SignBlank(ev.before)) =>
          /\ sign.loading
          /\ sign.signature = Null
    /\ (ev.op = "signMessage.rejected" /\ ev.live) => sign.signature = Null

C24_SignatureSet ==
    (sign'.signature # Null /\ sign'.signature # sign.signature) =>
        /\ ev'.op = "signMessage.fulfilled"
        /\ ev'.live
        /\ sign.runs = 1
        /\ sign.loading

C24_SignatureOnlyFromLastSign ==
    /\ []C24_State
    /\ [][C24_SignatureSet]_vars

C24_Witness ==
    /\ ev.op = "handleSign"
    /\ ev.before.signature # Null
    /\ sign.signature = Null
    /\ sign.loading

C24_WitnessRejected ==
    /\ ev.op = "signMessage.rejected"
    /\ ev.live
    /\ sign.signature = Null
    /\ ~sign.loading
    /\ sign.deadRuns > 0

(***************************************************************************)
(* C25. In PasskeyLogin authError is non-null only when the connect() of   *)
(* the most recent handleLogin rejected (and then nothing has cleared it   *)
(* since: Dismiss, the overlay's background, Try Again and handleLogin     *)
(* each leave authError null); dismissError calls no SDK method, and the   *)
(* step of handleLogin that calls connect() has set authError to null.     *)
(***************************************************************************)
C25_Clearing ==
    /\ ev.op \in {"dismissError", "tryAgain"} =>
          /\ login.authError = Null
          /\ out = <<>>
    /\ (ev.op = "handleLogin" /\ ev.live) =>
          /\ login.authError = Null
          /\ out = <<SdkConnect>>

C25_ErrorOfLastAttempt ==
    /\ login.authError # Null => login.last = "rejected"
    /\ C25_Clearing

(***************************************************************************)
(* C26. getErrorType gives one of four types for every message, the same   *)
(* for a message and its lower-cased form, by the first rule that matches: *)
(* 'cancel', 'abort' or 'user' give 'cancelled'; else 'timeout' gives      *)
(* 'timeout'; else 'not supported' or 'not allowed' give 'unsupported';    *)
(* else, and with no message, 'unknown'.  getErrorContent gives a title, a *)
(* description and three tips for each type.                               *)
(***************************************************************************)
ErrorTypes == {"cancelled", "timeout", "unsupported", "unknown"}

ErrorRules ==
    <<[type |-> "cancelled", words |-> {"cancel", "abort", "user"}],
      [type |-> "timeout", words |-> {"timeout"}],
      [type |-> "unsupported", words |-> {"not supported", "not allowed"}]>>

MatchingRules(message) ==
    {k \in DOMAIN ErrorRules :
        \E w \in ErrorRules[k].words : includes(toLowerCase(message), w)}

FirstMatch(message) ==
    IF MatchingRules(message) = {} THEN "unknown"
    ELSE LET k == CHOOSE i \in MatchingRules(message) :
                      \A j \in MatchingRules(message) : i <= j
         IN ErrorRules[k].type

HasContent(c) ==
    /\ DOMAIN c = {"title", "description", "tips"}
    /\ c.title # ""
    /\ c.description # ""
    /\ Len(c.tips) = 3
    /\ \A k \in 1..3 : c.tips[k] # ""

C26_ErrorTypeAndContent ==
    /\ getErrorType(thrown) \in ErrorTypes
    /\ getErrorType(thrown) = FirstMatch(thrown)
    /\ getErrorType(thrown) = getErrorType(toLowerCase(thrown))
    /\ \A type \in ErrorTypes : HasContent(getErrorContent(type))
    /\ (ev.op = "connect.rejected" /\ ev.live) =>
          /\ login.authError # Null
          /\ login.authError[1].type = FirstMatch(thrown)
          /\ ErrorOverlay(login) = Some(getErrorContent(FirstMatch(thrown)))

C26_Witness ==
    /\ ev.op = "connect.rejected"
    /\ thrown = "timeout USER"
    /\ login.authError # Null
    /\ login.authError[1].type = "cancelled"
    /\ ErrorOverlay(login)[1].title = "Authentication Cancelled"

====
